---- MODULE Spec2Model ----
(***************************************************************************)
(* Point<T,SIZE>::fromStream (point.h) and print_max / main (main.cpp).    *)
(*                                                                         *)
(* A stream is a sequence of one-character strings together with a cursor  *)
(* (pos, the index of the next character to be extracted; tellg() is       *)
(* pos - 1) and the good/not-good part of its iostate.  T is int, modelled *)
(* with a width of TBits bits.  A distance is represented by its square,   *)
(* the value of sum_of_squares, because std::sqrt is strictly monotonic on *)
(* the non-negative values of T and yields NaN on the negative ones.       *)
(***************************************************************************)
EXTENDS Integers, Sequences, FiniteSets, TLC

\* ------------------------------------------------------------------------
\* Bounds of the model

\* longest input file, in characters, of the character-level inputs
MaxLen == 4
\* number of print_max calls of main that are modelled (main makes 7)
NumFiles == 2
\* width of T in bits
TBits == 10
\* most lines of a line-structured input
MaxLines == 4
\* most records of an input written with toStream
MaxRecs == 3

\* ------------------------------------------------------------------------
\* The component type T

RECURSIVE Pow2(_)
Pow2(n) == IF n = 0 THEN 1 ELSE 2 * Pow2(n - 1)

TMax == Pow2(TBits - 1) - 1
TMin == 0 - Pow2(TBits - 1)
InT(x) == TMin <= x /\ x <= TMax

\* the SIZE argument of the k-th print_max instantiation of main
FileSize == <<1, 2, 5, 2, 3, 3, 4>>

\* Point(): every component zero
Point(n) == [i \in 1..n |-> 0]

\* ------------------------------------------------------------------------
\* Characters

Digits == <<"0", "1", "2", "3", "4", "5", "6", "7", "8", "9">>
IsDigit(c) == \E i \in 1..10 : Digits[i] = c
DigitVal(c) == (CHOOSE i \in 1..10 : Digits[i] = c) - 1
\* std::isspace in the "C" locale: space, newline, horizontal tab, carriage
\* return, form feed and vertical tab (the last string holds character 11)
IsSpace(c) == c \in {" ", "\n", "\t", "\r", "\f", ""}

\* the whitespace skipping of a formatted extraction: the index of the first
\* character at or after i that is not whitespace, Len(s) + 1 if there is none
SkipWs[s \in Seq(STRING), i \in Nat] ==
    IF i > Len(s) THEN i
    ELSE IF IsSpace(s[i]) THEN SkipWs[s, i + 1] ELSE i

\* is >> parenthesis: skips whitespace and extracts one character; the stream
\* is not good afterwards iff the end of the input was hit first
ExtractChar[s \in Seq(STRING), i \in Nat] ==
    LET j == SkipWs[s, i] IN
    IF j > Len(s) THEN [good |-> FALSE, pos |-> j, ch |-> ""]
    ELSE [good |-> TRUE, pos |-> j + 1, ch |-> s[j]]

\* the index of the first character at or after i that is not a digit
DigitsEnd[s \in Seq(STRING), i \in Nat] ==
    IF i > Len(s) THEN i
    ELSE IF IsDigit(s[i]) THEN DigitsEnd[s, i + 1] ELSE i

\* the value of the digits s[a..b-1], accumulated left to right; once past
\* the range of T the accumulator stays there (the overflow is reported)
AccDigits[s \in Seq(STRING), a \in Nat, b \in Nat, acc \in Nat] ==
    IF a >= b THEN acc
    ELSE AccDigits[s, a + 1, b,
                   IF acc > TMax + 1 THEN acc ELSE acc * 10 + DigitVal(s[a])]

\* the outcome of is >> temp for the literal that starts at j, whose digits
\* are s[d0..d1-1] (d0 > j iff it has a sign).  failbit: no digit, or a value
\* outside T.  eofbit: the end of the input was reached while scanning.
NumGetValue[s \in Seq(STRING), j \in Nat, d0 \in Nat, d1 \in Nat] ==
    LET mag == AccDigits[s, d0, d1, 0]
        val == IF d0 > j /\ s[j] = "-" THEN 0 - mag ELSE mag
        fail == d1 = d0 \/ ~InT(val)
        eof == d1 > Len(s)
    IN [good |-> ~fail /\ ~eof, fail |-> fail, eof |-> eof,
        pos |-> d1, val |-> val]

\* is >> temp from the first digit on: the longest run of digits is taken
NumGetDigits[s \in Seq(STRING), j \in Nat, d0 \in Nat] ==
    NumGetValue[s, j, d0, DigitsEnd[s, d0]]

\* is >> temp with the whitespace skipped up to j: an optional sign first
NumGet[s \in Seq(STRING), j \in Nat] ==
    NumGetDigits[s, j, IF j <= Len(s) /\ s[j] \in {"+", "-"} THEN j + 1 ELSE j]

\* is >> temp: skips whitespace, then reads an optional sign and the longest
\* run of digits
ExtractInt[s \in Seq(STRING), i \in Nat] == NumGet[s, SkipWs[s, i]]

\* the outcomes of is >> temp
IntOutcome ==
    [good : BOOLEAN, fail : BOOLEAN, eof : BOOLEAN, pos : Nat, val : Int]

\* the component loop of fromStream from component k on, the extraction of
\* component k having had the outcome t
RECURSIVE ReadComponents(_, _, _, _)
StoreComponent[s \in Seq(STRING), comps \in Seq(Int), k \in Nat, t \in IntOutcome] ==
    IF ~t.good THEN [good |-> FALSE, pos |-> t.pos, components |-> comps]
    ELSE ReadComponents(s, t.pos, [comps EXCEPT ![k] = t.val], k + 1)

\* the component loop that ends when only whitespace is left in the input
ReadComponents_stop(s, i, comps, k) ==
    IF k > Len(comps) THEN [good |-> TRUE, pos |-> i, components |-> comps]
    ELSE IF SkipWs[s, i] > Len(s) THEN
        [good |-> TRUE, pos |-> i, components |-> comps]
    ELSE StoreComponent[s, comps, k, ExtractInt[s, i]]

\* the component loop of fromStream, from component k on
ReadComponents(s, i, comps, k) ==
    IF k > Len(comps) THEN [good |-> TRUE, pos |-> i, components |-> comps]
    ELSE StoreComponent[s, comps, k, ExtractInt[s, i]]

\* fromStream that takes the end of the input inside the component loop for
\* an empty stream
fromStream_eof(s, i, comps) ==
    LET open == ExtractChar[s, i] IN
    IF ~open.good THEN
        [kind |-> "EmptyStreamError", what |-> "empty stream",
         pos |-> open.pos, components |-> comps]
    ELSE IF open.ch # "(" THEN
        [kind |-> "InvalidSymbolError", what |-> "invalid symbol",
         pos |-> open.pos, components |-> comps]
    ELSE
        LET r == ReadComponents(s, open.pos, comps, 1) IN
        IF ~r.good /\ r.pos > Len(s) THEN
            [kind |-> "EmptyStreamError", what |-> "empty stream",
             pos |-> r.pos, components |-> r.components]
        ELSE IF ~r.good THEN
            [kind |-> "InvalidSymbolError", what |-> "unable to read value",
             pos |-> r.pos, components |-> r.components]
        ELSE
            LET close == ExtractChar[s, r.pos] IN
            IF ~close.good THEN
                [kind |-> "EmptyStreamError", what |-> "empty stream",
                 pos |-> close.pos, components |-> r.components]
            ELSE IF close.ch # ")" THEN
                [kind |-> "InvalidSymbolError", what |-> "invalid symbol",
                 pos |-> close.pos, components |-> r.components]
            ELSE
                [kind |-> "none", what |-> "",
                 pos |-> close.pos, components |-> r.components]

\* fromStream that tests the character before it tests the stream
fromStream_order(s, i, comps) ==
    LET open == ExtractChar[s, i] IN
    IF open.ch # "(" THEN
        [kind |-> "InvalidSymbolError", what |-> "invalid symbol",
         pos |-> open.pos, components |-> comps]
    ELSE IF ~open.good THEN
        [kind |-> "EmptyStreamError", what |-> "empty stream",
         pos |-> open.pos, components |-> comps]
    ELSE
        LET r == ReadComponents(s, open.pos, comps, 1) IN
        IF ~r.good THEN
            [kind |-> "InvalidSymbolError", what |-> "unable to read value",
             pos |-> r.pos, components |-> r.components]
        ELSE
            LET close == ExtractChar[s, r.pos] IN
            IF ~close.good THEN
                [kind |-> "EmptyStreamError", what |-> "empty stream",
                 pos |-> close.pos, components |-> r.components]
            ELSE IF close.ch # ")" THEN
                [kind |-> "InvalidSymbolError", what |-> "invalid symbol",
                 pos |-> close.pos, components |-> r.components]
            ELSE
                [kind |-> "none", what |-> "",
                 pos |-> close.pos, components |-> r.components]

\* fromStream that throws InvalidSymbolError with its default message in the
\* component loop
fromStream_msg(s, i, comps) ==
    LET open == ExtractChar[s, i] IN
    IF ~open.good THEN
        [kind |-> "EmptyStreamError", what |-> "empty stream",
         pos |-> open.pos, components |-> comps]
    ELSE IF open.ch # "(" THEN
        [kind |-> "InvalidSymbolError", what |-> "invalid symbol",
         pos |-> open.pos, components |-> comps]
    ELSE
        LET r == ReadComponents(s, open.pos, comps, 1) IN
        IF ~r.good THEN
            [kind |-> "InvalidSymbolError", what |-> "invalid symbol",
             pos |-> r.pos, components |-> r.components]
        ELSE
            LET close == ExtractChar[s, r.pos] IN
            IF ~close.good THEN
                [kind |-> "EmptyStreamError", what |-> "empty stream",
                 pos |-> close.pos, components |-> r.components]
            ELSE IF close.ch # ")" THEN
                [kind |-> "InvalidSymbolError", what |-> "invalid symbol",
                 pos |-> close.pos, components |-> r.components]
            ELSE
                [kind |-> "none", what |-> "",
                 pos |-> close.pos, components |-> r.components]

\* fromStream that skips the whitespace after the closing marker
fromStream_ws(s, i, comps) ==
    LET open == ExtractChar[s, i] IN
    IF ~open.good THEN
        [kind |-> "EmptyStreamError", what |-> "empty stream",
         pos |-> open.pos, components |-> comps]
    ELSE IF open.ch # "(" THEN
        [kind |-> "InvalidSymbolError", what |-> "invalid symbol",
         pos |-> open.pos, components |-> comps]
    ELSE
        LET r == ReadComponents(s, open.pos, comps, 1) IN
        IF ~r.good THEN
            [kind |-> "InvalidSymbolError", what |-> "unable to read value",
             pos |-> r.pos, components |-> r.components]
        ELSE
            LET close == ExtractChar[s, r.pos] IN
            IF ~close.good THEN
                [kind |-> "EmptyStreamError", what |-> "empty stream",
                 pos |-> close.pos, components |-> r.components]
            ELSE IF close.ch # ")" THEN
                [kind |-> "InvalidSymbolError", what |-> "invalid symbol",
                 pos |-> close.pos, components |-> r.components]
            ELSE
                [kind |-> "none", what |-> "",
                 pos |-> SkipWs[s, close.pos], components |-> r.components]

\* fromStream that skips the character at which a component could not be read
fromStream_skip(s, i, comps) ==
    LET open == ExtractChar[s, i] IN
    IF ~open.good THEN
        [kind |-> "EmptyStreamError", what |-> "empty stream",
         pos |-> open.pos, components |-> comps]
    ELSE IF open.ch # "(" THEN
        [kind |-> "InvalidSymbolError", what |-> "invalid symbol",
         pos |-> open.pos, components |-> comps]
    ELSE
        LET r == ReadComponents(s, open.pos, comps, 1) IN
        IF ~r.good THEN
            [kind |-> "InvalidSymbolError", what |-> "unable to read value",
             pos |-> IF r.pos <= Len(s) THEN r.pos + 1 ELSE r.pos, components |-> r.components]
        ELSE
            LET close == ExtractChar[s, r.pos] IN
            IF ~close.good THEN
                [kind |-> "EmptyStreamError", what |-> "empty stream",
                 pos |-> close.pos, components |-> r.components]
            ELSE IF close.ch # ")" THEN
                [kind |-> "InvalidSymbolError", what |-> "invalid symbol",
                 pos |-> close.pos, components |-> r.components]
            ELSE
                [kind |-> "none", what |-> "",
                 pos |-> close.pos, components |-> r.components]

\* fromStream that throws another exception when the input ends in front of
\* the closing marker
fromStream_other(s, i, comps) ==
    LET open == ExtractChar[s, i] IN
    IF ~open.good THEN
        [kind |-> "EmptyStreamError", what |-> "empty stream",
         pos |-> open.pos, components |-> comps]
    ELSE IF open.ch # "(" THEN
        [kind |-> "InvalidSymbolError", what |-> "invalid symbol",
         pos |-> open.pos, components |-> comps]
    ELSE
        LET r == ReadComponents(s, open.pos, comps, 1) IN
        IF ~r.good THEN
            [kind |-> "InvalidSymbolError", what |-> "unable to read value",
             pos |-> r.pos, components |-> r.components]
        ELSE
            LET close == ExtractChar[s, r.pos] IN
            IF ~close.good THEN
                [kind |-> "runtime_error", what |-> "empty stream",
                 pos |-> close.pos, components |-> r.components]
            ELSE IF close.ch # ")" THEN
                [kind |-> "InvalidSymbolError", what |-> "invalid symbol",
                 pos |-> close.pos, components |-> r.components]
            ELSE
                [kind |-> "none", what |-> "",
                 pos |-> close.pos, components |-> r.components]

\* fromStream that gives the point its old components back before it throws
fromStream_atomic(s, i, comps) ==
    LET open == ExtractChar[s, i] IN
    IF ~open.good THEN
        [kind |-> "EmptyStreamError", what |-> "empty stream",
         pos |-> open.pos, components |-> comps]
    ELSE IF open.ch # "(" THEN
        [kind |-> "InvalidSymbolError", what |-> "invalid symbol",
         pos |-> open.pos, components |-> comps]
    ELSE
        LET r == ReadComponents(s, open.pos, comps, 1) IN
        IF ~r.good THEN
            [kind |-> "InvalidSymbolError", what |-> "unable to read value",
             pos |-> r.pos, components |-> comps]
        ELSE
            LET close == ExtractChar[s, r.pos] IN
            IF ~close.good THEN
                [kind |-> "EmptyStreamError", what |-> "empty stream",
                 pos |-> close.pos, components |-> comps]
            ELSE IF close.ch # ")" THEN
                [kind |-> "InvalidSymbolError", what |-> "invalid symbol",
                 pos |-> close.pos, components |-> comps]
            ELSE
                [kind |-> "none", what |-> "",
                 pos |-> close.pos, components |-> r.components]

\* Point::fromStream on the stream s with the cursor at i, into a point whose
\* components are comps: the exception thrown ("none" on return), its what(),
\* the cursor and the components of the point afterwards
fromStream(s, i, comps) ==
    LET open == ExtractChar[s, i] IN
    IF ~open.good THEN
        [kind |-> "EmptyStreamError", what |-> "empty stream",
         pos |-> open.pos, components |-> comps]
    ELSE IF open.ch # "(" THEN
        [kind |-> "InvalidSymbolError", what |-> "invalid symbol",
         pos |-> open.pos, components |-> comps]
    ELSE
        LET r == ReadComponents(s, open.pos, comps, 1) IN
        IF ~r.good THEN
            [kind |-> "InvalidSymbolError", what |-> "unable to read value",
             pos |-> r.pos, components |-> r.components]
        ELSE
            LET close == ExtractChar[s, r.pos] IN
            IF ~close.good THEN
                [kind |-> "EmptyStreamError", what |-> "empty stream",
                 pos |-> close.pos, components |-> r.components]
            ELSE IF close.ch # ")" THEN
                [kind |-> "InvalidSymbolError", what |-> "invalid symbol",
                 pos |-> close.pos, components |-> r.components]
            ELSE
                [kind |-> "none", what |-> "",
                 pos |-> close.pos, components |-> r.components]

\* ------------------------------------------------------------------------
\* distance and operator>

\* the exact sum of the squares of the differences of the first k components
RECURSIVE ExactSum(_, _, _)
ExactSum(a, b, k) ==
    IF k = 0 THEN 0
    ELSE ExactSum(a, b, k - 1) + (a[k] - b[k]) * (a[k] - b[k])

\* x reduced into the range of T modulo 2^TBits
WrapT(x) == ((x - TMin) % Pow2(TBits)) + TMin

\* What the conversion of an out-of-range double to T, which is undefined,
\* yields in a build: the indefinite value (TMin, as on x86), the saturated
\* value, or the value wrapped modulo 2^TBits
UBModes == {"indefinite", "saturate", "wrap"}

\* the double x stored into a T
Convert(m, x) ==
    IF InT(x) THEN x
    ELSE CASE m = "indefinite" -> TMin
           [] m = "saturate" -> IF x > TMax THEN TMax ELSE TMin
           [] OTHER -> WrapT(x)

\* components_[i] - p.components_[i]: a subtraction in T, which wraps when
\* the difference is out of range
Difference(x, y) == WrapT(x - y)

\* sum_of_squares after the first k rounds of the loop of distance in a build
\* of mode m: every round adds std::pow(difference, 2), a double, and stores
\* the sum back into the T
RECURSIVE SumWith(_, _, _, _)
SumWith(m, a, b, k) ==
    IF k = 0 THEN 0
    ELSE Convert(m, SumWith(m, a, b, k - 1)
                    + Difference(a[k], b[k]) * Difference(a[k], b[k]))

\* the values sum_of_squares can have when distance returns its square root:
\* the exact sum while every partial sum fits in T, otherwise what the build
\* makes of the out-of-range conversions
sum_of_squares(a, b) == {SumWith(m, a, b, Len(a)) : m \in UBModes}

\* sqrt(x) > sqrt(y) for values of T: false when either root is NaN
SqrtGreater(x, y) == x >= 0 /\ y >= 0 /\ x > y

\* operator> in a build of mode m
GreaterWith(m, a, b) ==
    SqrtGreater(SumWith(m, a, Point(Len(a)), Len(a)),
                SumWith(m, b, Point(Len(b)), Len(b)))

\* operator>: the values  distance(Point{}) > p.distance(Point{})  can have
Greater(a, b) == {GreaterWith(m, a, b) : m \in UBModes}

\* ------------------------------------------------------------------------
\* toStream

RECURSIVE NatText(_)
NatText(n) ==
    IF n < 10 THEN <<Digits[n + 1]>>
    ELSE NatText(n \div 10) \o <<Digits[(n % 10) + 1]>>

\* os << components_[i] for an int
IntText(v) == IF v < 0 THEN <<"-">> \o NatText(0 - v) ELSE NatText(v)

RECURSIVE ComponentsText(_, _)
\* the loop of toStream without the space after a component
ComponentsText_nosep(comps, k) ==
    IF k > Len(comps) THEN <<>>
    ELSE IntText(comps[k]) \o ComponentsText(comps, k + 1)

ComponentsText(comps, k) ==
    IF k > Len(comps) THEN <<>>
    ELSE IntText(comps[k]) \o <<" ">> \o ComponentsText(comps, k + 1)

\* Point::toStream: "( c0 c1 ... )"
toStream(comps) == <<"(", " ">> \o ComponentsText(comps, 1) \o <<")">>

\* ------------------------------------------------------------------------
\* Input files.  An input is the text of a file together with the points it
\* was written from with toStream (records; empty for the other inputs).

\* every text of at most MaxLen characters over Alphabet
Alphabet == {"(", ")", " ", "\n", "1", "9", "-", "x"}
CharInputs ==
    {[text |-> t, records |-> <<>>] :
        t \in UNION {[1..n -> Alphabet] : n \in 0..MaxLen}}

\* texts of at most MaxLines lines, each taken from Lines: well-formed and
\* malformed records of one and of two components, with and without the
\* newline that ends the line
Lines ==
    { <<"(", "1", ")", "\n">>,
      <<"(", "4", ")">>,
      <<"(", "9", "x", "\n">>,
      <<"x", "\n">>,
      <<"(", "(", "9", ")", "\n">>,
      <<"(", "\n">>,
      <<"(", "1", " ", "1", ")", "\n">>,
      <<"(", "9", " ", "x", ")", "\n">> }

RECURSIVE Flatten(_)
Flatten(ss) == IF ss = <<>> THEN <<>> ELSE Head(ss) \o Flatten(Tail(ss))

LineInputs ==
    {[text |-> Flatten(ls), records |-> <<>>] :
        ls \in UNION {[1..n -> Lines] : n \in 1..MaxLines}}

\* texts written with toStream from at most MaxRecs points of n components,
\* separated by one space or one newline, with or without a final newline;
\* the components of a point repeat one of Pairs
Pairs == { <<1, 2>>, <<-5, 9>>, <<3, 3>>, <<9, -5>>, <<0, 0>> }
WFPoints(n) == {[i \in 1..n |-> pr[2 - (i % 2)]] : pr \in Pairs}

RECURSIVE Join(_, _)
Join(ss, sep) ==
    IF Len(ss) = 1 THEN Head(ss) ELSE Head(ss) \o sep \o Join(Tail(ss), sep)

WFInputs(n) ==
    {[text |-> Join([i \in 1..Len(rs) |-> toStream(rs[i])], sep) \o end,
      records |-> rs] :
        rs \in UNION {[1..k -> WFPoints(n)] : k \in 1..MaxRecs},
        sep \in {<<" ">>, <<"\n">>},
        end \in {<<>>, <<"\n">>}}

\* the largest r with r * r <= TMax: the largest magnitude of one component
\* whose square fits in T
Root == CHOOSE r \in 0..TMax : r * r <= TMax /\ (r + 1) * (r + 1) > TMax

\* values of T at the ends of its range and around Root
TVals ==
    {TMin, 0 - (Root + 9), -1, 0, 1, Root, Root + 1, Root + 7, Root + 9, TMax}
BoundaryPoints(n) ==
    {[i \in 1..n |-> pr[2 - (i % 2)]] : pr \in TVals \X TVals}

\* the text toStream writes for one point of n components, alone in the file
\* or followed by a newline
RoundTripInputs(n) ==
    {[text |-> toStream(pt) \o end, records |-> <<pt>>] :
        pt \in BoundaryPoints(n), end \in {<<>>, <<"\n">>}}

\* the texts toStream writes for two points of n components whose squares
\* are near or beyond TMax, separated by a space
OverflowVals == {1, Root, Root + 7, Root + 9}
OverflowPoints(n) ==
    {[i \in 1..n |-> pr[2 - (i % 2)]] : pr \in OverflowVals \X OverflowVals}
OverflowInputs(n) ==
    {[text |-> toStream(a) \o <<" ">> \o toStream(b), records |-> <<a, b>>] :
        a \in OverflowPoints(n), b \in OverflowPoints(n)}

Inputs(n) ==
    CharInputs \cup LineInputs \cup WFInputs(n) \cup RoundTripInputs(n)
        \cup OverflowInputs(n)

\* the inputs of each print_max call of main that is modelled
FileInputs == [k \in 1..NumFiles |-> Inputs(FileSize[k])]

\* ------------------------------------------------------------------------
\* main and print_max

VARIABLES
    file,      \* number of print_max calls main has made
    pc,        \* "main", "first", "loop", "discard", "return", "exit"
    stream,    \* contents of infile
    records,   \* history: the points the file was written from, if any
    pos,       \* cursor of infile
    good,      \* infile.good()
    eofs,      \* history: parity of the get() calls that returned EOF
    p,         \* print_max's p
    pmax,      \* print_max's pmax
    err,       \* reports of the current print_max call on cerr
    out,       \* results of the current print_max call on cout
    log,       \* history: the parse attempts of the current print_max call
    cmp        \* outcome of the operator> and distance calls on p and pmax

vars ==
    <<file, pc, stream, records, pos, good, eofs, p, pmax, err, out, log, cmp>>

Attempt(start, r) ==
    [start |-> start, kind |-> r.kind, what |-> r.what, pos |-> r.pos,
     components |-> r.components]

Report(category, r) ==
    [category |-> category, what |-> r.what, position |-> r.pos - 1]

Init ==
    /\ file = 0
    /\ pc = "main"
    /\ stream = <<>>
    /\ records = <<>>
    /\ pos = 1
    /\ good = TRUE
    /\ eofs = 0
    /\ p = <<>>
    /\ pmax = <<>>
    /\ err = <<>>
    /\ out = <<>>
    /\ log = <<>>
    /\ cmp = <<>>

\* main calls the next print_max: infile is opened on a file with some
\* contents, p and pmax are default-constructed
Call ==
    /\ pc = "main"
    /\ file < NumFiles
    /\ \E in \in FileInputs[file + 1] :
           /\ stream' = in.text
           /\ records' = in.records
    /\ file' = file + 1
    /\ pos' = 1
    /\ good' = TRUE
    /\ eofs' = 0
    /\ p' = Point(FileSize[file + 1])
    /\ pmax' = Point(FileSize[file + 1])
    /\ err' = <<>>
    /\ out' = <<>>
    /\ log' = <<>>
    /\ pc' = "first"
    /\ UNCHANGED cmp

\* the first parse without the return in its catch clause
ParseFirst_noreturn ==
    /\ pc = "first"
    /\ \E r \in {fromStream(stream, pos, pmax)} :
       /\ pos' = r.pos
       /\ pmax' = r.components
       /\ log' = Append(log, Attempt(pos, r))
       /\ IF r.kind = "none"
          THEN /\ pc' = "loop"
               /\ err' = err
          ELSE /\ pc' = "loop"
               /\ err' = Append(err, Report("unable to read first element", r))
    /\ UNCHANGED <<file, stream, records, good, eofs, p, out, cmp>>

\* infile >> pmax, and its catch (std::exception &)
ParseFirst ==
    /\ pc = "first"
    /\ \E r \in {fromStream(stream, pos, pmax)} :
       /\ pos' = r.pos
       /\ pmax' = r.components
       /\ log' = Append(log, Attempt(pos, r))
       /\ IF r.kind = "none"
          THEN /\ pc' = "loop"
               /\ err' = err
          ELSE /\ pc' = "return"
               /\ err' = Append(err, Report("unable to read first element", r))
    /\ UNCHANGED <<file, stream, records, good, eofs, p, out, cmp>>

\* the loop with p in place of pmax in the output of the result
ParseNext_printp ==
    /\ pc = "loop"
    /\ \E r \in {fromStream(stream, pos, p)} :
       /\ pos' = r.pos
       /\ p' = r.components
       /\ log' = Append(log, Attempt(pos, r))
       /\ CASE r.kind = "EmptyStreamError" ->
                 /\ pc' = "return"
                 /\ out' = Append(out, [zero |-> Point(Len(pmax)), max |-> p])
                 /\ UNCHANGED <<pmax, err>>
            [] r.kind = "InvalidSymbolError" ->
                 /\ pc' = "discard"
                 /\ err' = Append(err, Report("ignoring invalid element", r))
                 /\ UNCHANGED <<pmax, out>>
            [] r.kind = "none" ->
                 /\ pc' = "loop"
                 /\ \E g \in Greater(r.components, pmax) :
                        pmax' = IF g THEN r.components ELSE pmax
                 /\ UNCHANGED <<err, out>>
            [] OTHER ->
                 /\ pc' = "return"
                 /\ err' = Append(err, Report("unable to recover", r))
                 /\ UNCHANGED <<pmax, out>>
    /\ UNCHANGED <<file, stream, records, good, eofs, cmp>>

\* one iteration of for (;;) up to the end of its catch clause, and, unless
\* the clause is left by break or entered the discarding loop, the comparison
\* that follows the try block; after break, the output of the result
ParseNext ==
    /\ pc = "loop"
    /\ \E r \in {fromStream(stream, pos, p)} :
       /\ pos' = r.pos
       /\ p' = r.components
       /\ log' = Append(log, Attempt(pos, r))
       /\ CASE r.kind = "EmptyStreamError" ->
                 /\ pc' = "return"
                 /\ out' = Append(out, [zero |-> Point(Len(pmax)), max |-> pmax])
                 /\ UNCHANGED <<pmax, err>>
            [] r.kind = "InvalidSymbolError" ->
                 /\ pc' = "discard"
                 /\ err' = Append(err, Report("ignoring invalid element", r))
                 /\ UNCHANGED <<pmax, out>>
            [] r.kind = "none" ->
                 /\ pc' = "loop"
                 /\ \E g \in Greater(r.components, pmax) :
                        pmax' = IF g THEN r.components ELSE pmax
                 /\ UNCHANGED <<err, out>>
            [] OTHER ->
                 /\ pc' = "return"
                 /\ err' = Append(err, Report("unable to recover", r))
                 /\ UNCHANGED <<pmax, out>>
    /\ UNCHANGED <<file, stream, records, good, eofs, cmp>>

\* the discarding loop that stops in front of the newline
Discard_peek ==
    /\ pc = "discard"
    /\ IF good /\ pos <= Len(stream)
       THEN /\ pos' = IF stream[pos] = "\n" THEN pos ELSE pos + 1
            /\ UNCHANGED <<good, eofs>>
            /\ IF stream[pos] = "\n"
               THEN /\ pc' = "loop"
                    /\ \E g \in Greater(p, pmax) :
                           pmax' = IF g THEN p ELSE pmax
               ELSE UNCHANGED <<pc, pmax>>
       ELSE \* get() returns EOF and sets eofbit | failbit
            /\ good' = FALSE
            /\ eofs' = 1 - eofs
            /\ UNCHANGED <<pos, pc, pmax>>
    /\ UNCHANGED <<file, stream, records, p, err, out, log, cmp>>

\* one iteration of  while (infile.get() != '\n');  and, when it ends the
\* loop, the comparison that follows the try block
Discard ==
    /\ pc = "discard"
    /\ IF good /\ pos <= Len(stream)
       THEN /\ pos' = pos + 1
            /\ UNCHANGED <<good, eofs>>
            /\ IF stream[pos] = "\n"
               THEN /\ pc' = "loop"
                    /\ \E g \in Greater(p, pmax) :
                           pmax' = IF g THEN p ELSE pmax
               ELSE UNCHANGED <<pc, pmax>>
       ELSE \* get() returns EOF and sets eofbit | failbit
            /\ good' = FALSE
            /\ eofs' = 1 - eofs
            /\ UNCHANGED <<pos, pc, pmax>>
    /\ UNCHANGED <<file, stream, records, p, err, out, log, cmp>>

\* print_max returns to main: infile, p and pmax go out of scope
Return ==
    /\ pc = "return"
    /\ pc' = "main"
    /\ stream' = <<>>
    /\ records' = <<>>
    /\ pos' = 1
    /\ good' = TRUE
    /\ eofs' = 0
    /\ p' = <<>>
    /\ pmax' = <<>>
    /\ err' = <<>>
    /\ out' = <<>>
    /\ log' = <<>>
    /\ UNCHANGED <<file, cmp>>

\* return 0 of main
Exit ==
    /\ pc = "main"
    /\ file = NumFiles
    /\ pc' = "exit"
    /\ UNCHANGED <<file, stream, records, pos, good, eofs, p, pmax, err, out,
                   log, cmp>>

Next ==
    \/ Call
    \/ ParseFirst
    \/ ParseNext
    \/ Discard
    \/ Return
    \/ Exit

Spec == Init /\ [][Next]_vars

\* the program keeps running: every step that can be taken eventually is
FairSpec ==
    Spec /\ WF_vars(Call) /\ WF_vars(ParseFirst) /\ WF_vars(ParseNext)
         /\ WF_vars(Discard) /\ WF_vars(Return) /\ WF_vars(Exit)

\* ------------------------------------------------------------------------
\* operator> and distance on their own: p and pmax are any two points of the
\* same SIZE with components in TVals

\* the SIZE arguments of the first two instantiations of main
PointSizes == {FileSize[1], FileSize[2]}

PointInit ==
    /\ file = 0
    /\ pc = "point"
    /\ stream = <<>>
    /\ records = <<>>
    /\ pos = 1
    /\ good = TRUE
    /\ eofs = 0
    /\ \E n \in PointSizes :
           /\ p \in [1..n -> TVals]
           /\ pmax \in [1..n -> TVals]
    /\ err = <<>>
    /\ out = <<>>
    /\ log = <<>>
    /\ cmp = <<>>

\* p > pmax, pmax > p and p.distance(Point{}) in one build
Compare ==
    /\ pc = "point"
    /\ \E m \in UBModes :
           cmp' = <<[mode |-> m,
                     sum |-> SumWith(m, p, Point(Len(p)), Len(p)),
                     pq |-> GreaterWith(m, p, pmax),
                     qp |-> GreaterWith(m, pmax, p)]>>
    /\ pc' = "compared"
    /\ UNCHANGED <<file, stream, records, pos, good, eofs, p, pmax, err, out,
                   log>>

PointNext == Compare

PointSpec == PointInit /\ [][PointNext]_vars

\* ------------------------------------------------------------------------
\* Properties

\* the exact square of the magnitude of a point
MagSq(pt) == ExactSum(pt, Point(Len(pt)), Len(pt))

\* the scan has returned through the output of its result
EndedNormally == pc = "return" /\ out # <<>>

\* the points of the successful parse attempts so far
Parsed == {log[i].components : i \in {j \in 1..Len(log) : log[j].kind = "none"}}

\* C1: on a file that consists of well-formed records only (written with
\* toStream from at least one point with components in T) the scan never
\* reports or discards anything and returns with exactly one result, which
\* is one of the file's records and has a magnitude greater than or equal to
\* the magnitude of every record of the file.
C1_MaxOfWellFormedStream ==
    records # <<>> =>
        /\ pc # "discard"
        /\ err = <<>>
        /\ pc = "return" =>
              /\ Len(out) = 1
              /\ \E i \in 1..Len(records) : out[1].max = records[i]
              /\ \A i \in 1..Len(records) :
                     MagSq(out[1].max) >= MagSq(records[i])

\* C2: while the loop runs and when the result has been output, the running
\* maximum is the point of one of the successful parse attempts (so an
\* attempt that failed with InvalidSymbolError has not changed it).
C2_RunningMaxIsParsedRecord ==
    (pc \in {"loop", "discard"} \/ EndedNormally) => pmax \in Parsed

\* C3: every scan that is started returns.
C3_ScanTerminates == (pc = "first") ~> (pc = "return")

\* from index i on, s holds whitespace only (or nothing)
OnlySpace(s, i) == \A k \in i..Len(s) : IsSpace(s[k])

\* the number of literals (maximal runs of digits) of s from index i on
LiteralCount(s, i) ==
    Cardinality({k \in i..Len(s) :
                    IsDigit(s[k]) /\ (k = i \/ ~IsDigit(s[k - 1]))})

\* the index of the first non-whitespace character of attempt a
RecordStart(a) == SkipWs[stream, a.start]

\* C4, as claimed: a parse attempt fails with EmptyStreamError only if it
\* consumed no non-whitespace character (whatever was left was whitespace).
C4_EmptyStreamOnlyBeforeAnyToken ==
    \A i \in 1..Len(log) :
        log[i].kind = "EmptyStreamError" => OnlySpace(stream, log[i].start)

\* C4, amended: a parse attempt fails with EmptyStreamError only at the end
\* of the input and either it consumed no non-whitespace character, or it
\* consumed the opening marker and all SIZE literals (the closing-marker
\* step); after the opening marker, a truncation before or between the
\* literals is therefore never an EmptyStreamError.
C4_EmptyStreamOnlyAtMarkerSteps ==
    \A i \in 1..Len(log) :
        log[i].kind = "EmptyStreamError" =>
            /\ log[i].pos = Len(stream) + 1
            /\ \/ OnlySpace(stream, log[i].start)
               \/ /\ stream[RecordStart(log[i])] = "("
                  /\ LiteralCount(stream, log[i].start) = Len(pmax)

\* an attempt has consumed "(" and a literal and has failed with
\* EmptyStreamError at the closing-marker step
C4_Witness ==
    \E i \in 1..Len(log) :
        /\ log[i].kind = "EmptyStreamError"
        /\ ~OnlySpace(stream, log[i].start)
        /\ stream[RecordStart(log[i])] = "("

\* C5: in the loop, a parse attempt that fails with InvalidSymbolError adds
\* exactly one "ignoring invalid element" report and one that fails with
\* EmptyStreamError adds none; and after the failure the input is discarded
\* up to and including the next newline and the scan goes on with a further
\* parse attempt.
C5_ReportDiscardRetry ==
    /\ [][pc = "loop" =>
            /\ pc' = "discard" =>
                  /\ log'[Len(log')].kind = "InvalidSymbolError"
                  /\ err' = Append(err, [category |-> "ignoring invalid element",
                                         what |-> log'[Len(log')].what,
                                         position |-> pos' - 1])
            /\ pc' # "discard" => err' = err]_vars
    /\ (pc = "discard") ~> (pc = "loop" /\ stream[pos - 1] = "\n")

\* C6: once the first parse attempt of a scan has failed, with either kind,
\* the scan has returned: there is exactly one report, "unable to read first
\* element" with the failure's message, no further attempt and no result.
C6_FirstParseFailureEndsScan ==
    (Len(log) >= 1 /\ log[1].kind # "none") =>
        /\ pc = "return"
        /\ Len(log) = 1
        /\ out = <<>>
        /\ Len(err) = 1
        /\ err[1].category = "unable to read first element"
        /\ err[1].what = log[1].what

\* the first attempt failed with InvalidSymbolError in front of a
\* well-formed record
C6_Witness ==
    /\ pc = "return"
    /\ Len(log) = 1
    /\ log[1].kind = "InvalidSymbolError"
    /\ \E k \in pos..Len(stream) :
           stream[k] = "(" /\ fromStream(stream, k, pmax).kind = "none"

\* C7: a scan outputs at most one result; when it has, it has returned, its
\* first attempt succeeded, its last attempt is one of the loop and failed
\* with EmptyStreamError, and the result is the running maximum.
C7_ResultOnlyAtLoopEnd ==
    /\ Len(out) <= 1
    /\ out # <<>> =>
          /\ pc = "return"
          /\ Len(log) >= 2
          /\ log[1].kind = "none"
          /\ log[Len(log)].kind = "EmptyStreamError"
          /\ out[1].max = pmax

\* a result has been output by a scan that parsed a record after its first
\* one and whose last parsed record is not the maximum
C7_Witness ==
    /\ EndedNormally
    /\ Len(log) >= 3
    /\ p # pmax
    /\ p \in Parsed

\* C8: main starts the scan of every file and then returns.
C8_EveryFileScanned == <>(pc = "exit" /\ file = NumFiles)

\* the index of the first newline of s at or after index i, 0 if none
NextNewline(s, i) ==
    IF \E k \in i..Len(s) : s[k] = "\n"
    THEN CHOOSE k \in i..Len(s) :
             s[k] = "\n" /\ \A m \in i..(k - 1) : s[m] # "\n"
    ELSE 0

\* a well-formed record begins at index k of the stream
WellFormedAt(k) ==
    stream[k] = "(" /\ fromStream(stream, k, Point(Len(pmax))).kind = "none"

\* attempt j is the first successful one after attempt i
NextSuccess(i, j) ==
    /\ i < j
    /\ log[j].kind = "none"
    /\ \A k \in (i + 1)..(j - 1) : log[k].kind # "none"

\* C9, as claimed: after an InvalidSymbolError in the loop, the next record
\* parsed successfully is the first well-formed record of the stream that
\* begins after the first newline following the position of the failure.
C9_NextParsedIsFirstRecordAfterNewline ==
    \A i \in 2..Len(log) : \A j \in 2..Len(log) :
        (log[i].kind = "InvalidSymbolError" /\ NextSuccess(i, j)) =>
            LET nl == NextNewline(stream, log[i].pos) IN
            /\ nl > 0
            /\ RecordStart(log[j]) > nl
            /\ \A k \in (nl + 1)..(RecordStart(log[j]) - 1) : ~WellFormedAt(k)

\* C9, amended: after an InvalidSymbolError in the loop, the next parse
\* attempt starts at the character right after the first newline at or after
\* the position of the failure, and every later attempt (so the next
\* successful one) starts after that newline.
C9_RetryStartsAfterNewline ==
    \A i \in 2..Len(log) : \A j \in 2..Len(log) :
        (log[i].kind = "InvalidSymbolError" /\ i < j) =>
            LET nl == NextNewline(stream, log[i].pos) IN
            /\ nl > 0
            /\ log[j].start > nl
            /\ j = i + 1 => log[j].start = nl + 1

\* a record has been parsed after two failed lines, the second of which
\* holds a well-formed record that was discarded
C9_Witness ==
    \E i \in 2..Len(log) : \E j \in 2..Len(log) :
        /\ log[i].kind = "InvalidSymbolError"
        /\ NextSuccess(i, j)
        /\ j > i + 1
        /\ \E k \in (NextNewline(stream, log[i].pos) + 1)..(log[j].start - 1) :
               WellFormedAt(k)

\* C10: a parse attempt that starts where only whitespace or nothing is
\* left fails with EmptyStreamError.
C10_OnlyWhitespaceLeftIsEmptyStream ==
    \A i \in 1..Len(log) :
        OnlySpace(stream, log[i].start) => log[i].kind = "EmptyStreamError"

\* after a successful parse, an attempt started in front of whitespace only
C10_Witness ==
    \E i \in 2..Len(log) :
        /\ log[i - 1].kind = "none"
        /\ log[i].start <= Len(stream)
        /\ OnlySpace(stream, log[i].start)
        /\ log[i].kind = "EmptyStreamError"

\* the number of literals (maximal runs of digits) of s[i..j]
LiteralCountIn(s, i, j) ==
    Cardinality({k \in i..j : IsDigit(s[k]) /\ (k = i \/ ~IsDigit(s[k - 1]))})

\* attempt a consumed a character in the place of a marker that is not the
\* marker: its first non-whitespace character is not "(", or the last
\* character it consumed comes after "(" and SIZE literals, is not whitespace
\* and is not ")"
OpeningMismatch(a) ==
    /\ a.pos = RecordStart(a) + 1
    /\ stream[RecordStart(a)] # "("
ClosingMismatch(a) ==
    /\ stream[RecordStart(a)] = "("
    /\ a.pos - 1 > RecordStart(a)
    /\ ~IsSpace(stream[a.pos - 1])
    /\ stream[a.pos - 1] # ")"
    /\ \/ /\ ~IsDigit(stream[a.pos - 1])
          /\ LiteralCountIn(stream, RecordStart(a), a.pos - 1)
                 = Len(a.components)
       \/ /\ IsDigit(stream[a.pos - 1])
          /\ LiteralCountIn(stream, RecordStart(a), a.pos - 1)
                 = Len(a.components) + 1
MarkerMismatch(a) == OpeningMismatch(a) \/ ClosingMismatch(a)

\* C11: the message of an InvalidSymbolError tells its cause: it is "invalid
\* symbol" when a character other than the marker was found in the place of
\* the opening or the closing marker, and "unable to read value" otherwise,
\* that is when a component could not be read; neither message is produced
\* for the other cause.
C11_MessageTellsCause ==
    \A i \in 1..Len(log) :
        log[i].kind = "InvalidSymbolError" =>
            /\ log[i].what \in {"invalid symbol", "unable to read value"}
            /\ log[i].what = "invalid symbol" <=> MarkerMismatch(log[i])

\* one scan has met a wrong opening marker, a wrong closing marker and an
\* unreadable component
C11_Witness ==
    \E i, j, k \in 1..Len(log) :
        /\ log[i].kind = "InvalidSymbolError" /\ OpeningMismatch(log[i])
        /\ log[j].kind = "InvalidSymbolError" /\ ClosingMismatch(log[j])
        /\ log[k].kind = "InvalidSymbolError"
        /\ log[k].what = "unable to read value"

\* the input ends after the opening marker of attempt a before SIZE literals
\* have been written: what follows the marker is whitespace and fewer than
\* SIZE literals, each with or without a sign
Truncated(a) ==
    /\ RecordStart(a) <= Len(stream)
    /\ stream[RecordStart(a)] = "("
    /\ \A k \in (RecordStart(a) + 1)..Len(stream) :
           \/ IsSpace(stream[k])
           \/ IsDigit(stream[k])
           \/ /\ stream[k] \in {"+", "-"}
              /\ k < Len(stream)
              /\ IsDigit(stream[k + 1])
    /\ LiteralCount(stream, RecordStart(a) + 1) < Len(a.components)

\* C12: a parse attempt that has consumed the opening marker and meets the
\* end of the input, possibly after whitespace, before all SIZE components
\* are read fails with InvalidSymbolError "unable to read value", not with
\* EmptyStreamError; so does the first parse of "( ".
C12_TruncatedPointIsInvalidSymbol ==
    \A i \in 1..Len(log) :
        Truncated(log[i]) =>
            /\ log[i].kind = "InvalidSymbolError"
            /\ log[i].what = "unable to read value"

\* the first parse of the file "( " has failed with InvalidSymbolError
C12_Witness ==
    /\ stream = <<"(", " ">>
    /\ pc = "return"
    /\ Len(log) = 1
    /\ Truncated(log[1])
    /\ log[1].kind = "InvalidSymbolError"
    /\ err[1].category = "unable to read first element"

\* C13: a successful parse attempt has consumed the whitespace in front of
\* the point, the opening marker, SIZE literals with the whitespace in front
\* of them, and the closing marker, and nothing else: the last character it
\* consumed is the closing marker, and the cursor, from which the scan goes
\* on, is immediately after it.
C13_SuccessStopsAfterClosingMarker ==
    \A i \in 1..Len(log) :
        log[i].kind = "none" =>
            /\ stream[RecordStart(log[i])] = "("
            /\ log[i].pos - 1 > RecordStart(log[i])
            /\ stream[log[i].pos - 1] = ")"
            /\ \A k \in (RecordStart(log[i]) + 1)..(log[i].pos - 2) :
                   IsSpace(stream[k]) \/ IsDigit(stream[k])
                       \/ stream[k] \in {"+", "-"}
            /\ LiteralCountIn(stream, RecordStart(log[i]), log[i].pos - 1)
                   = Len(log[i].components)
            /\ IF i < Len(log) THEN log[i + 1].start = log[i].pos
               ELSE pos = log[i].pos

\* a point has been parsed and the whitespace after its closing marker has
\* not been consumed
C13_Witness ==
    /\ pc = "loop"
    /\ log # <<>>
    /\ log[Len(log)].kind = "none"
    /\ pos = log[Len(log)].pos
    /\ pos <= Len(stream)
    /\ IsSpace(stream[pos])
    /\ stream[pos - 1] = ")"

\* the index of the first digit of the literal whose last digit is s[e]
LiteralStart(s, e) ==
    CHOOSE d \in 1..e :
        /\ \A k \in d..e : IsDigit(s[k])
        /\ d = 1 \/ ~IsDigit(s[d - 1])

\* the literal whose last digit is s[e] is a value of T
LiteralInT(s, e) ==
    InT(IF LiteralStart(s, e) > 1 /\ s[LiteralStart(s, e) - 1] = "-"
        THEN 0 - AccDigits[s, LiteralStart(s, e), e + 1, 0]
        ELSE AccDigits[s, LiteralStart(s, e), e + 1, 0])

\* attempt a failed where a literal was expected and no digit was found: the
\* consumed text does not end with a literal that is out of range or that is
\* cut off by the end of the input
NoDigit(a) ==
    /\ a.kind = "InvalidSymbolError"
    /\ a.what = "unable to read value"
    /\ \/ ~IsDigit(stream[a.pos - 1])
       \/ a.pos <= Len(stream) /\ LiteralInT(stream, a.pos - 1)

\* the index of the character that made attempt a fail: the character at the
\* cursor where a digit was missing, else the last character consumed (the
\* wrong marker, or the end of the literal that could not be stored)
TriggerAt(a) == IF NoDigit(a) THEN a.pos ELSE a.pos - 1

\* C14, as claimed: after a parse attempt that failed with InvalidSymbolError
\* the cursor is past the character that made it fail, so that character is
\* never left unconsumed.
C14_FailureConsumesTrigger ==
    \A i \in 1..Len(log) :
        (log[i].kind = "InvalidSymbolError"
            /\ TriggerAt(log[i]) <= Len(stream)) =>
                log[i].pos > TriggerAt(log[i])

\* C14, amended: a failed parse attempt never moves the cursor backwards and
\* the scan goes on from where it left the cursor.  A wrong marker has been
\* consumed: it is the last character before the cursor.  After a component
\* failure the opening marker has been consumed, but the character at which a
\* digit was missing has not: if the input has not ended it is the character
\* at the cursor, and it is not a digit.
C14_FailureLeavesTriggerAtCursor ==
    \A i \in 1..Len(log) :
        log[i].kind # "none" =>
            /\ log[i].pos >= log[i].start
            /\ IF i < Len(log) THEN log[i + 1].start >= log[i].pos
               ELSE pos >= log[i].pos
            /\ (log[i].kind = "InvalidSymbolError"
                   /\ log[i].what = "invalid symbol") =>
                   /\ log[i].pos - 1 >= RecordStart(log[i])
                   /\ ~IsSpace(stream[log[i].pos - 1])
                   /\ stream[log[i].pos - 1] \notin
                          {IF log[i].pos - 1 = RecordStart(log[i])
                           THEN "(" ELSE ")"}
            /\ (log[i].kind = "InvalidSymbolError"
                   /\ log[i].what = "unable to read value") =>
                   /\ log[i].pos > RecordStart(log[i])
                   /\ stream[RecordStart(log[i])] = "("
                   /\ log[i].pos <= Len(stream) =>
                          ~IsDigit(stream[log[i].pos])

\* an attempt has consumed "(" and failed at an "x" where a digit was
\* expected, and the "x" is still in front of the cursor it left
C14_Witness ==
    \E i \in 1..Len(log) :
        /\ NoDigit(log[i])
        /\ log[i].pos <= Len(stream)
        /\ stream[log[i].pos] = "x"
        /\ stream[log[i].pos - 1] = "("

\* C15: parsing the text that toStream writes for a point gives that point
\* back: on a file written with toStream the i-th parse attempt succeeds with
\* the i-th point written, also when the text of one point is the whole file,
\* and the attempt after the last point fails with EmptyStreamError.
C15_ParseOfToStreamIsIdentity ==
    records # <<>> =>
        \A i \in 1..Len(log) :
            /\ i <= Len(records) =>
                   /\ log[i].kind = "none"
                   /\ log[i].components = records[i]
            /\ i > Len(records) => log[i].kind = "EmptyStreamError"

\* the file "( TMin TMax )", without a newline, has been parsed into the
\* point (TMin, TMax) and the attempt has consumed the whole file
C15_Witness ==
    /\ records = << <<TMin, TMax>> >>
    /\ stream = toStream(<<TMin, TMax>>)
    /\ Len(stream) > 4
    /\ log # <<>>
    /\ log[1].kind = "none"
    /\ log[1].components = <<TMin, TMax>>
    /\ log[1].pos = Len(stream) + 1

\* C16: operator> is strict: of two points of equal magnitude neither is
\* greater than the other, and no two points are each greater than the other.
C16_GreaterIsStrict ==
    cmp # <<>> =>
        /\ MagSq(p) = MagSq(pmax) => ~cmp[1].pq /\ ~cmp[1].qp
        /\ ~(cmp[1].pq /\ cmp[1].qp)

\* C17: for a point with any components of T, the sum of squares of which
\* distance takes the root is not negative (so the magnitude is defined and
\* not negative), and it is 0 for the point of zeros.
C17_SumOfSquaresNotNegative ==
    cmp # <<>> =>
        /\ cmp[1].sum >= 0
        /\ p = Point(Len(p)) => cmp[1].sum = 0

\* C18: for points with any components of T, p > q exactly if the exact sum
\* of the squares of p's components is greater than that of q's: the sum is
\* not accumulated in T and does not overflow.
C18_GreaterIsExactComparison ==
    cmp # <<>> =>
        /\ cmp[1].pq <=> MagSq(p) > MagSq(pmax)
        /\ cmp[1].qp <=> MagSq(pmax) > MagSq(p)

\* C19: a parse attempt returns or throws EmptyStreamError or
\* InvalidSymbolError, nothing else, whatever the input; so the loop never
\* takes its catch clause for other exceptions and never reports "unable to
\* recover".
C19_OnlyTwoFailureKinds ==
    /\ \A i \in 1..Len(log) :
           log[i].kind \in {"none", "EmptyStreamError", "InvalidSymbolError"}
    /\ \A j \in 1..Len(err) :
           err[j].category \in
               {"unable to read first element", "ignoring invalid element"}

\* a scan has returned after its loop met an InvalidSymbolError, which it
\* reported, and then an EmptyStreamError
C19_Witness ==
    /\ pc = "return"
    /\ out # <<>>
    /\ err # <<>>
    /\ \E i \in 2..Len(log) : log[i].kind = "InvalidSymbolError"
    /\ log[Len(log)].kind = "EmptyStreamError"
    /\ err[Len(err)].category = "ignoring invalid element"

\* the cursor after k literals have been lexed from index i of s on, each
\* extraction without failbit; 0 if one of them fails
RECURSIVE LexedEnd(_, _, _)
LexedEnd(s, i, k) ==
    IF k = 0 THEN i
    ELSE IF ExtractInt[s, i].fail THEN 0
    ELSE LexedEnd(s, ExtractInt[s, i].pos, k - 1)

\* attempt a meets "(" and SIZE literals that can be lexed
AtClosingStep(a) ==
    /\ RecordStart(a) <= Len(stream)
    /\ stream[RecordStart(a)] = "("
    /\ LexedEnd(stream, RecordStart(a) + 1, Len(a.components)) > 0

\* the index of the first character after the SIZE literals of attempt a
LiteralsEnd(a) == LexedEnd(stream, RecordStart(a) + 1, Len(a.components))

\* C20: a parse attempt that has lexed the opening marker and all SIZE
\* literals fails with EmptyStreamError if the input ends there, directly
\* after the last literal or after whitespace only, and fails with
\* InvalidSymbolError if the next non-whitespace character is not ")".
C20_ClosingMarkerStep ==
    \A i \in 1..Len(log) :
        AtClosingStep(log[i]) =>
            /\ OnlySpace(stream, LiteralsEnd(log[i])) =>
                   log[i].kind = "EmptyStreamError"
            /\ (~OnlySpace(stream, LiteralsEnd(log[i]))
                    /\ stream[SkipWs[stream, LiteralsEnd(log[i])]] # ")") =>
                   log[i].kind = "InvalidSymbolError"

\* the indices at which the lines of the stream begin
LineStarts ==
    {k \in 1..Len(stream) : k = 1 \/ stream[k - 1] = "\n"}

\* the line that begins at index k, with its newline, parsed on its own into
\* a point of zeros
LineText(k) == SubSeq(stream, k, NextNewline(stream, k))
LineRecord(k) == fromStream(LineText(k), 1, Point(Len(pmax)))

\* the line that begins at k holds one well-formed record and nothing else
WellFormedLine(k) ==
    /\ LineRecord(k).kind = "none"
    /\ OnlySpace(LineText(k), LineRecord(k).pos)

\* the line that begins at k holds something that is not a record
MalformedLine(k) ==
    /\ ~OnlySpace(LineText(k), 1)
    /\ LineRecord(k).kind # "none"

\* every line of the stream ends with a newline, the first line holds a
\* well-formed record, every other line a well-formed or a malformed one
LineDelimited ==
    /\ stream # <<>>
    /\ stream[Len(stream)] = "\n"
    /\ WellFormedLine(1)
    /\ \A k \in LineStarts : WellFormedLine(k) \/ MalformedLine(k)

\* C21: on a stream of lines whose first line is a well-formed record and
\* whose other lines hold a well-formed or a malformed record each, a scan
\* that has returned has parsed every well-formed line, and its result is a
\* record of a well-formed line of the greatest magnitude among them.
C21_MaxOverWellFormedLines ==
    (LineDelimited /\ pc = "return") =>
        /\ \A k \in LineStarts :
               WellFormedLine(k) =>
                   \E i \in 1..Len(log) :
                       log[i].kind = "none" /\ RecordStart(log[i]) = k
        /\ Len(out) = 1
        /\ \E k \in LineStarts :
               WellFormedLine(k) /\ out[1].max = LineRecord(k).components
        /\ \A k \in LineStarts :
               WellFormedLine(k) =>
                   MagSq(out[1].max) >= MagSq(LineRecord(k).components)

\* C22: the running maximum is replaced only by a point of strictly greater
\* magnitude, so its magnitude never decreases during a scan, and the result
\* of the scan is the first of the successfully parsed records that have the
\* greatest magnitude.
C22_MaxReplacedOnlyByGreater ==
    /\ [][(pc \in {"loop", "discard"} /\ pmax' # pmax) =>
              MagSq(pmax') > MagSq(pmax)]_vars
    /\ [](EndedNormally =>
            \E i \in 1..Len(log) :
                /\ log[i].kind = "none"
                /\ log[i].components = out[1].max
                /\ \A j \in 1..Len(log) :
                       log[j].kind = "none" =>
                           \/ MagSq(log[j].components) < MagSq(out[1].max)
                           \/ /\ MagSq(log[j].components) = MagSq(out[1].max)
                              /\ j >= i)

\* the step is a parse attempt that fails
FailedAttemptStep ==
    /\ pc \in {"first", "loop"}
    /\ Len(log') = Len(log) + 1
    /\ log'[Len(log')].kind # "none"

\* C23, as claimed: a parse attempt that fails leaves every component of the
\* point it reads into (pmax for the first attempt, p in the loop) as it was.
C23_FailedParseLeavesPoint ==
    [][FailedAttemptStep =>
          IF pc = "first" THEN pmax' = pmax ELSE p' = p]_vars

\* new is old with its first k components replaced by the first k literals
\* after the opening marker of attempt a
StoredPrefix(a, old, new, k) ==
    /\ LexedEnd(stream, RecordStart(a) + 1, k) > 0
    /\ \A j \in 1..Len(old) :
           new[j] = IF j <= k
                    THEN ExtractInt[stream,
                             LexedEnd(stream, RecordStart(a) + 1, j - 1)].val
                    ELSE old[j]

\* what the failed attempt a has made of the point: nothing if it failed at
\* the opening marker; the literals in front of the one whose extraction
\* left the stream not good if it failed in the component loop; all SIZE
\* literals if it failed at the closing marker
PartlyStored(a, old, new) ==
    \E k \in 0..Len(old) :
        /\ StoredPrefix(a, old, new, k)
        /\ (RecordStart(a) > Len(stream) \/ OpeningMismatch(a)) => k = 0
        /\ a.what = "unable to read value" =>
               /\ k < Len(old)
               /\ ~ExtractInt[stream,
                       LexedEnd(stream, RecordStart(a) + 1, k)].good
        /\ (RecordStart(a) <= Len(stream) /\ ~OpeningMismatch(a)
                /\ a.what # "unable to read value") => k = Len(old)

\* C23, amended: a parse attempt that fails at the opening marker leaves the
\* point as it was; one that fails later has stored every component it read
\* before the failure, in order, and has left the other components as they
\* were: after a failure at the closing marker all SIZE components are new.
C23_FailedParseStoresPrefix ==
    [][FailedAttemptStep =>
          PartlyStored(log'[Len(log')],
                       IF pc = "first" THEN pmax ELSE p,
                       IF pc = "first" THEN pmax' ELSE p')]_vars

\* after ( 1 1 ) twice, the attempt on "(9 x)" has failed and has left p with
\* the new first component and the old second one
C23_Witness ==
    /\ pc = "discard"
    /\ Len(log) = 3
    /\ log[2].kind = "none"
    /\ log[2].components = <<1, 1>>
    /\ log[3].kind = "InvalidSymbolError"
    /\ p = <<9, 1>>

====
